---- MODULE Spec2Model ----
(***************************************************************************)
(* Model of the per-key trading control loop of apps/trading/trade_engine  *)
(* (TradeEngine.start / stop / main_loop / update_state and the two-leg    *)
(* open / close operations) for one key (user, symbol).                    *)
(*                                                                         *)
(* The engine runs on one asyncio event loop: code between two awaits is   *)
(* atomic.  Each action below is "the awaited result arrives, then the     *)
(* task runs up to its next await".  Django ORM calls are synchronous and  *)
(* belong to the step that makes them.                                     *)
(*                                                                         *)
(* Units: prices are integers; spreads and thresholds are in 0.01 percent  *)
(* (20 = 0.2%), rounded down.  The quote sets Bids and Asks are chosen so  *)
(* that the spread division is exact.                                      *)
(***************************************************************************)
EXTENDS Integers, Sequences, FiniteSets, TLC

VARIABLES running, tasks, settings, clients, trades, ticks, botState,
          orders, tickNo, calls, env, halfOpenAt, peer,
          closedLegs, connections, consumers

vars == <<running, tasks, settings, clients, trades, ticks, botState,
          orders, tickNo, calls, env, halfOpenAt, peer,
          closedLegs, connections, consumers>>

----------------------------------------------------------------------------
(* Bounds of the model *)

MaxTasks == 2
MaxTicks == 2
MaxCalls == 1
RaceTicks == 2
RaceCalls == 3
StopTicks == 1
StopCalls == 2
EditTicks == 2
EditCalls == 1
MaxSaves == 1
WindowCap == 2
ZeroTicks == 1
ZeroCalls == 2
FaultTicks == 2
FaultCalls == 1
EmitTicks == 2
EmitCalls == 1
HangTicks == 1
HangCalls == 2
KeysTicks == 1
KeysCalls == 1
FeeTicks == 1
FeeCalls == 2
VenueTicks == 2
VenueCalls == 1
ConnTicks == 1
ConnCalls == 1
WsTicks == 1
WsCalls == 2

(* Python's None for an absent quote or price *)
None == -1

TaskIds == 1..MaxTasks

----------------------------------------------------------------------------
(* Inputs *)

Bids == {1996, 2004}
Asks == {2000}

NoSnap == [bid |-> None, ask |-> None, ok |-> FALSE]

Snapshots ==
    {NoSnap}
    \cup {[bid |-> b, ask |-> a, ok |-> TRUE] : b \in Bids, a \in Asks}
    \cup {[bid |-> None, ask |-> 2000, ok |-> TRUE]}

(* ticker.get("bid") or ticker.get("bidPrice"), and the same for the ask *)
QuoteField(primary, alt) == IF primary # None /\ primary # 0 THEN primary ELSE alt

(* The snapshot _fetch_market_snapshot builds from a ticker *)
SnapOf(tk) ==
    [bid |-> QuoteField(tk.bid, tk.bidPrice),
     ask |-> QuoteField(tk.ask, tk.askPrice),
     ok |-> TRUE]

(* Tickers of a venue that reports a zero price: a zero under both keys    *)
(* stays a zero quote, a zero with the alternative key missing becomes an  *)
(* absent quote.                                                           *)
ZeroTickers ==
    {[bid |-> 2004, bidPrice |-> None, ask |-> 0, askPrice |-> 0],
     [bid |-> 0, bidPrice |-> 0, ask |-> 2000, askPrice |-> None],
     [bid |-> 2004, bidPrice |-> None, ask |-> 0, askPrice |-> None]}

ZeroSnapshots == {SnapOf(tk) : tk \in ZeroTickers}

(* random.uniform(100, 101) and + random.uniform(0.01, 0.05), in 0.01 units *)
SynthQuotes == {[bid1 |-> 10000, ask1 |-> 10001, bid2 |-> 10100, ask2 |-> 10105]}

OrderResults == {"fail", "noprice", "filled"}

Sides == {"LONG", "SHORT"}

NoSettings ==
    [present |-> FALSE, exchange_1 |-> "", exchange_2 |-> "", side |-> "LONG",
     open_spread |-> 0, close_spread |-> 0, order_size |-> 0, max_orders |-> 0,
     force_stop |-> FALSE, total_stop |-> FALSE]

AllSettings ==
    [present : {TRUE},
     exchange_1 : {"bybit"}, exchange_2 : {"gateio"},
     side : Sides,
     open_spread : {-20, 20},
     close_spread : {-20, 20},
     order_size : {0, 1},
     max_orders : {0, 1, 2},
     force_stop : BOOLEAN,
     total_stop : BOOLEAN]

(* The stored settings the model starts from: thresholds of opposite sign  *)
(* (each branch of the entry and exit comparisons occurs for each side),   *)
(* and a kill switch or a zero order size only next to the defaults of the *)
(* other fields.                                                           *)
SettingsDomain ==
    {s \in AllSettings :
        /\ s.close_spread = -s.open_spread
        /\ ~(s.force_stop /\ s.total_stop)
        /\ (s.force_stop \/ s.total_stop \/ s.order_size = 0)
              => (s.side = "LONG" /\ s.open_spread = 20 /\ s.max_orders = 1)}

(* A stored settings row whose second venue was never chosen *)
NoVenueSettings ==
    [present |-> TRUE, exchange_1 |-> "bybit", exchange_2 |-> "", side |-> "LONG",
     open_spread |-> 20, close_spread |-> -20, order_size |-> 1, max_orders |-> 1,
     force_stop |-> FALSE, total_stop |-> FALSE]

(* The fields of UserSymbolSettings a request may set *)
Fields == {"exchange_1", "exchange_2",
           "side", "open_spread", "close_spread", "order_size", "max_orders",
           "force_stop", "total_stop"}

(* Exchange ids a request may post for exchange_1 / exchange_2 *)
Venues == {"bybit", "gateio", "binance"}

(* The settings a symbol gets by default: LONG, entry at 0.2%, one position *)
RaceSettings ==
    {s \in SettingsDomain :
        /\ s.side = "LONG" /\ s.open_spread = 20 /\ s.max_orders = 1
        /\ s.order_size = 1 /\ ~s.force_stop /\ ~s.total_stop}

----------------------------------------------------------------------------
(* Pure helpers *)

ActiveIds(tr) == {i \in 1..Len(tr) : tr[i].status = "active"}

RECURSIVE SetToSeq(_)
SetToSeq(S) ==
    IF S = {} THEN <<>>
    ELSE LET m == CHOOSE x \in S : \A y \in S : x <= y
         IN <<m>> \o SetToSeq(S \ {m})

(* Python's truth value of a quote: None and 0 are false *)
Truthy(x) == x # None /\ x # 0

(* Mutant: the spread taken over the bid *)
SpreadPct_OverBid(b, a) ==
    IF Truthy(a) /\ Truthy(b) THEN ((b - a) * 10000) \div b ELSE 0

(* (b - a) / a * 100 if a and b else 0, in 0.01 percent *)
SpreadPct(b, a) ==
    IF Truthy(a) /\ Truthy(b) THEN ((b - a) * 10000) \div a ELSE 0

(* settings.max_orders or 1 *)
MaxOrdersOr1(st) == IF st.max_orders = 0 THEN 1 ELSE st.max_orders

(* Mutant: the entry gate without the kill switches *)
EntryGate_NoKill(real, st, tr) ==
    /\ real
    /\ Cardinality(ActiveIds(tr)) < MaxOrdersOr1(st)

EntryGate(real, st, tr) ==
    /\ real
    /\ ~st.force_stop
    /\ ~st.total_stop
    /\ Cardinality(ActiveIds(tr)) < MaxOrdersOr1(st)

(* Mutant: the LONG comparison made strict *)
OpenCondition_Strict(st, os) ==
    IF st.side = "LONG"
    THEN os > st.open_spread
    ELSE IF st.open_spread > 0
         THEN os <= -st.open_spread
         ELSE os <= st.open_spread

OpenCondition(st, os) ==
    IF st.side = "LONG"
    THEN os >= st.open_spread
    ELSE IF st.open_spread > 0
         THEN os <= -st.open_spread
         ELSE os <= st.open_spread

(* Mutant: the SHORT comparison without the sign flip *)
CloseCondition_NoFlip(st, cs) ==
    IF st.side = "LONG"
    THEN cs <= st.close_spread
    ELSE cs >= st.close_spread

CloseCondition(st, cs) ==
    IF st.side = "LONG"
    THEN cs <= st.close_spread
    ELSE IF st.close_spread > 0
         THEN cs >= -st.close_spread
         ELSE cs >= st.close_spread

(* A second key of the same engine (another symbol of the user), followed  *)
(* at the grain of its suspension points: its entry of self.running, its   *)
(* main_loop task (none, ready to be resumed by the event loop, or waiting *)
(* for an awaited call or sleep), the length of its window, and the start  *)
(* or stop coroutine that run_coroutine_threadsafe has queued for it.      *)
IdlePeer == [running |-> FALSE, pc |-> "none", window |-> 0, pending |-> "none"]

(* self.ticks[key]: the three windows; count is the number of appends made *)
(* so far and n labels a sample with the ordinal of its append.            *)
NoTicks == [open |-> <<>>, close |-> <<>>, real |-> <<>>, count |-> 0]

Sample(v) == [n |-> ticks.count + 1, v |-> v]

(* Mutant: the newest sample is dropped instead of the oldest *)
Append1_DropNewest(arr, x) ==
    LET a == Append(arr, x)
    IN IF Len(a) > WindowCap THEN SubSeq(a, 1, WindowCap) ELSE a

(* ticks[...].append(x); if len(arr) > 200: arr.pop(0) *)
Append1(arr, x) ==
    LET a == Append(arr, x)
    IN IF Len(a) > WindowCap THEN Tail(a) ELSE a

----------------------------------------------------------------------------
(* A control-loop task: its position in main_loop / update_state and the   *)
(* locals of the tick in flight.                                           *)

IdleTask ==
    [pc |-> "none", tick |-> 0, st |-> NoSettings, bot_active |-> FALSE,
     snap1 |-> NoSnap, real |-> FALSE,
     bid1 |-> 0, ask1 |-> 0, bid2 |-> 0, ask2 |-> 0, os |-> 0, cs |-> 0,
     nact |-> 0, entryOK |-> FALSE, openInv |-> FALSE,
     leg1res |-> "none", leg1 |-> None,
     exitAct |-> {}, closeInv |-> FALSE,
     closing |-> <<>>, ci |-> 0, l1c |-> "none", attempted |-> {},
     last |-> [tid |-> 0, l1 |-> FALSE, l2 |-> FALSE],
     io |-> <<>>, err |-> "none"]

NewTask == [IdleTask EXCEPT !.pc = "top"]

Live(t) == tasks[t].pc # "none"
LiveTasks == {t \in TaskIds : Live(t)}
InTick(t) == tasks[t].pc \in {"fetch1", "fetch2", "open1", "open2",
                              "close1", "close2", "push"}

(* Direction of each leg: settings.side for exchange_1, the opposite for   *)
(* exchange_2.                                                             *)
Leg1Dir(side) == IF side = "LONG" THEN "long" ELSE "short"
Leg2Dir(side) == IF side = "LONG" THEN "short" ELSE "long"

(* Fill price of a market order: buying lifts the ask, selling hits the bid *)
FillPrice(dir, opening, bid, ask) ==
    IF (dir = "long") = opening THEN ask ELSE bid

(* _open_leg: long -> buy, short -> sell; _close_leg: the reverse *)
OrderSide(dir, opening) ==
    IF (dir = "long") = opening THEN "buy" ELSE "sell"

(* create_order(market_symbol, "market", side, amount) of an opening leg *)
OpenOrder(loc, leg) ==
    [side |-> OrderSide(IF leg = 1 THEN Leg1Dir(loc.st.side)
                                   ELSE Leg2Dir(loc.st.side), TRUE),
     amount |-> loc.st.order_size,
     venue |-> IF leg = 1 THEN loc.st.exchange_1 ELSE loc.st.exchange_2]

(* Mutant: the closing order re-derived from the current settings *)
CloseOrder_FromSettings(loc, tr, leg) ==
    [side |-> OrderSide(IF leg = 1 THEN Leg1Dir(loc.st.side)
                                   ELSE Leg2Dir(loc.st.side), FALSE),
     amount |-> loc.st.order_size,
     venue |-> IF leg = 1 THEN loc.st.exchange_1 ELSE loc.st.exchange_2]

(* create_order of a closing leg: direction and amount as stored in        *)
(* trade.exchanges at open, on the client of settings.exchange_1 /         *)
(* exchange_2 as the tick read them.                                       *)
CloseOrder(loc, tr, leg) ==
    [side |-> OrderSide(IF leg = 1 THEN tr.dir1 ELSE tr.dir2, FALSE),
     amount |-> tr.amount,
     venue |-> IF leg = 1 THEN loc.st.exchange_1 ELSE loc.st.exchange_2]

(* Money is counted in 1/10000 of a price unit, so that the fallback fee   *)
(* price * amount * DEFAULT_FEE_RATE (0.0006) is an integer.               *)
MoneyScale == 10000
FeeRate == 6

LegFee(price, amount) == price * amount * FeeRate

(* The fee a leg returns when the order response reports none: the         *)
(* fallback `if fee_total == 0 and price` is taken on the price of the     *)
(* response, before the ticker is asked for a missing price, so a leg      *)
(* priced from the ticker ("ticker") returns the fee 0.0.                  *)
ReturnedFee(r, price, amount) ==
    IF r = "ticker" THEN 0 ELSE LegFee(price, amount)

(* Mutant: the short leg's profit with the sign of a long leg *)
PnlTotal_ShortAsLong(side, e1, e2, x1, x2, amount, fee) ==
    LET profit1 == (x1 - e1) * amount
        profit2 == (x2 - e2) * amount
    IN (profit1 + profit2) * MoneyScale - fee

(* profit1 + profit2 - total_fee of _close_all_arbitrage_positions, by the *)
(* stored side of the trade.                                               *)
PnlTotal(side, e1, e2, x1, x2, amount, fee) ==
    LET profit1 == IF side = "LONG" THEN (x1 - e1) * amount ELSE (e1 - x1) * amount
        profit2 == IF side = "LONG" THEN (e2 - x2) * amount ELSE (x2 - e2) * amount
    IN (profit1 + profit2) * MoneyScale - fee

(* bot.data written at the end of the tick *)
BotData(loc, tr) ==
    [open_spread |-> loc.os, close_spread |-> loc.cs,
     orders |-> Cardinality(ActiveIds(tr))]

NoData ==
    [open_spread |-> 0, close_spread |-> 0, orders |-> 0]

(* The two outputs of a tick, in the order the tick makes them: the save  *)
(* of the BotState row and the group_send of push_update to the group      *)
(* trading_<user.id> of the key's user.                                    *)
SaveOp == [op |-> "save", to |-> "BotState", type |-> "row"]
EmitOp == [op |-> "emit", to |-> "trading_<user.id>", type |-> "trading.update"]

(* TradingConsumer: the group it joins on connect and the message handlers *)
(* it defines; a message of type a.b is dispatched to the method a_b.      *)
ConsumerGroup == "user_<user.id>"
ConsumerHandlers == {"bot_update", "bot_log", "bot_state", "bot_error"}

HandlerName ==
    [ty \in {"trading.update", "bot.update", "bot.log", "bot.state", "bot.error"} |->
        CASE ty = "trading.update" -> "trading_update"
          [] ty = "bot.update" -> "bot_update"
          [] ty = "bot.log" -> "bot_log"
          [] ty = "bot.state" -> "bot_state"
          [] ty = "bot.error" -> "bot_error"]

(* group_send of event ev as the consumer c sees it: the channel layer     *)
(* hands the event to the channels that joined the group ev.to, and the    *)
(* consumer forwards it to its socket when it has the handler of ev.type.  *)
Deliver(c, ev) ==
    IF c.connected /\ c.group = ev.to /\ HandlerName[ev.type] \in ConsumerHandlers
    THEN [c EXCEPT !.received = @ + 1]
    ELSE c

(* except Exception as e: logger.error(...) of main_loop: the task is back *)
(* at the while test, the rest of the tick and the sleep are skipped.      *)
Raised(loc, e) ==
    [NewTask EXCEPT !.tick = loc.tick, !.io = loc.io, !.err = e]

(* Mutant: the update event is sent before the row is saved *)
Publish_EmitFirst(w) ==
    IF ~w.sv THEN [w EXCEPT !.loc = Raised(w.loc, "save")]
    ELSE [w EXCEPT !.loc.pc = "push",
                   !.loc.io = w.loc.io \o <<EmitOp, SaveOp>>,
                   !.bs = [is_active |-> w.loc.bot_active,
                           data |-> BotData(w.loc, w.tr)]]

(* Steps 7-8 of update_state: bot.data = ...; bot.save(); then the await   *)
(* of push_update.  w is [loc, tr, bs, ho, sv]: the task's locals, the     *)
(* Trade table, the BotState row, the tick of the last HALF-OPEN error log *)
(* and whether bot.save() succeeds; when it raises, the exception leaves   *)
(* update_state and push_update is not reached.                            *)
Publish(w) ==
    IF ~w.sv THEN [w EXCEPT !.loc = Raised(w.loc, "save")]
    ELSE [w EXCEPT !.loc.pc = "push",
                   !.loc.io = w.loc.io \o <<SaveOp, EmitOp>>,
                   !.bs = [is_active |-> w.loc.bot_active,
                           data |-> BotData(w.loc, w.tr)]]

(* _close_all_arbitrage_positions, from position ci of the trades fetched  *)
(* by the for loop, up to the next awaited create_order.                   *)
CloseLoop(w) ==
    IF w.loc.ci > Len(w.loc.closing) THEN Publish(w)
    ELSE IF clients[1]
         THEN [w EXCEPT !.loc.pc = "close1",
                        !.loc.attempted = @ \cup {w.loc.closing[w.loc.ci]}]
    ELSE IF clients[2]
         THEN [w EXCEPT !.loc.pc = "close2", !.loc.l1c = "none",
                        !.loc.attempted = @ \cup {w.loc.closing[w.loc.ci]}]
    ELSE (* no client for either venue: every _close_leg returns None *)
         Publish([w EXCEPT !.loc.attempted =
                              @ \cup {w.loc.closing[j] : j \in w.loc.ci..Len(w.loc.closing)},
                           !.loc.ci = Len(w.loc.closing) + 1])

(* Mutant: the exit block closes on the spread condition only *)
ExitStep_SpreadOnly(w) ==
    LET loc == w.loc
        act == ActiveIds(w.tr)
        seen == loc.real /\ act # {}
        inv == seen /\ CloseCondition(loc.st, loc.cs)
    IN IF inv
       THEN CloseLoop([w EXCEPT !.loc.exitAct = act, !.loc.closeInv = TRUE,
                                !.loc.closing = SetToSeq(act), !.loc.ci = 1,
                                !.loc.l1c = "none"])
       ELSE Publish([w EXCEPT !.loc.exitAct = IF seen THEN act ELSE {}])

(* The exit block of update_state (lines 788-815), entered with the        *)
(* active trades as re-read after the entry block.                         *)
ExitStep(w) ==
    LET loc == w.loc
        act == ActiveIds(w.tr)
        seen == loc.real /\ act # {}
        inv == seen /\ (CloseCondition(loc.st, loc.cs)
                        \/ loc.st.force_stop \/ loc.st.total_stop)
    IN IF inv
       THEN CloseLoop([w EXCEPT !.loc.exitAct = act, !.loc.closeInv = TRUE,
                                !.loc.closing = SetToSeq(act), !.loc.ci = 1,
                                !.loc.l1c = "none"])
       ELSE Publish([w EXCEPT !.loc.exitAct = IF seen THEN act ELSE {}])

(* The entry block of update_state (lines 753-786) up to the first awaited *)
(* create_order of _open_arbitrage_position.                               *)
EntryStep(w) ==
    LET loc == w.loc
        gate == EntryGate(loc.real, loc.st, w.tr)
        inv == gate /\ OpenCondition(loc.st, loc.os)
        w1 == [w EXCEPT !.loc.nact = Cardinality(ActiveIds(w.tr)),
                        !.loc.entryOK = gate, !.loc.openInv = inv]
    IN IF ~inv THEN ExitStep(w1)
       ELSE IF loc.st.order_size <= 0 THEN ExitStep(w1)
       ELSE IF ~clients[1] THEN ExitStep(w1)
       ELSE [w1 EXCEPT !.loc.pc = "open1"]

(* Commit the result of a step of task t *)
Commit(t, w) ==
    /\ tasks' = [tasks EXCEPT ![t] = w.loc]
    /\ trades' = w.tr
    /\ botState' = w.bs
    /\ halfOpenAt' = w.ho

World(t) ==
    [loc |-> tasks[t], tr |-> trades, bs |-> botState, ho |-> halfOpenAt,
     sv |-> TRUE]

(* The outcomes of a write of the BotState row (update_or_create, save):   *)
(* TRUE when it succeeds, FALSE when the database raises; every write      *)
(* raises while the database is down.                                      *)
SaveChoices ==
    IF "save" \in env.faults THEN BOOLEAN
    ELSE IF env.db = "down" THEN {FALSE}
    ELSE {TRUE}

WorldWith(t, sv) == [World(t) EXCEPT !.sv = sv]

(* The ExchangeConnection rows of the user for the venues of exchange_1    *)
(* and exchange_2 (active: is_active) and the engine's cache               *)
(* self.ccxt_clients (cached: the key user:exchange is in the dict).       *)
(* clients[i] says whether _get_ccxt_client returns a client for the       *)
(* venue: it is cached, or an active row lets the engine build it.         *)
NewConnections(cl) == [active |-> cl, cached |-> <<FALSE, FALSE>>]

(* _get_ccxt_client for the venue of exchange_i: a cached client is        *)
(* returned as it is; on a miss the client is built from the active        *)
(* ExchangeConnection row, if there is one, and stored in the cache.       *)
GetClient(c, i) ==
    [c EXCEPT !.cached[i] = c.cached[i] \/ c.active[i]]

(* The websocket consumer of the key's user: not connected *)
NoConsumers == [connected |-> FALSE, group |-> "none", received |-> 0]

----------------------------------------------------------------------------
(* Initial state: the engine singleton right after construction, with the  *)
(* stored settings and credentials of the key drawn from the domains.      *)

Init ==
    /\ running = FALSE
    /\ tasks = [t \in TaskIds |-> IdleTask]
    /\ settings \in SettingsDomain \cup {NoSettings, NoVenueSettings}
    /\ clients \in {<<TRUE, TRUE>>, <<TRUE, FALSE>>, <<FALSE, TRUE>>}
    /\ clients # <<TRUE, TRUE>> => settings \in RaceSettings
    /\ trades = <<>>
    /\ ticks = NoTicks
    /\ botState = [is_active |-> FALSE, data |-> NoData]
    /\ orders = {}
    /\ tickNo = 0
    /\ calls = [start |-> 0, stop |-> 0, save |-> 0]
    /\ halfOpenAt = 0
    /\ peer = IdlePeer
    /\ closedLegs = {}
    /\ connections = NewConnections(clients)
    /\ consumers = NoConsumers
    /\ env = [scripted |-> FALSE, feed |-> <<>>, maxCalls |-> MaxCalls,
             maxTicks |-> MaxTicks,
             editable |-> Fields,
             faults |-> {"emit"}, db |-> "up"]

----------------------------------------------------------------------------
(* Supervisor: the start_bot / stop_bot views and TradeEngine.start / stop *)

FreeSlot == CHOOSE t \in TaskIds : ~Live(t) /\ \A u \in TaskIds : ~Live(u) => t <= u

(* Mutant: start without the test of the run flag *)
EngineStart_NoCheck ==
    /\ running' = TRUE
    /\ IF \E t \in TaskIds : ~Live(t)
       THEN tasks' = [tasks EXCEPT ![FreeSlot] = NewTask]
       ELSE UNCHANGED tasks

(* TradeEngine.start: no-op when the run flag is set, else set the flag    *)
(* and create the main_loop task.                                          *)
EngineStart ==
    IF running
    THEN UNCHANGED <<running, tasks>>
    ELSE /\ running' = TRUE
         /\ tasks' = [tasks EXCEPT ![FreeSlot] = NewTask]

Start ==
    /\ env.db = "up"
    /\ calls.start + calls.stop < env.maxCalls
    /\ running \/ (\E t \in TaskIds : ~Live(t))
    /\ calls' = [calls EXCEPT !.start = @ + 1]
    /\ botState' = [is_active |-> TRUE, data |-> NoData]
    /\ EngineStart
    /\ UNCHANGED <<settings, clients, trades, ticks, orders, tickNo, env, halfOpenAt, peer,
                   closedLegs, connections, consumers>>

(* TradeEngine.stop: clears the run flag, nothing else *)
EngineStop == running' = FALSE

Stop ==
    /\ env.db = "up"
    /\ calls.start + calls.stop < env.maxCalls
    /\ calls' = [calls EXCEPT !.stop = @ + 1]
    /\ botState' = [botState EXCEPT !.is_active = FALSE]
    /\ EngineStop
    /\ UNCHANGED <<tasks, settings, clients, trades, ticks, orders, tickNo, env, halfOpenAt, peer,
                   closedLegs, connections, consumers>>

(* save_symbol_settings: setattr of the posted fields, then save(); one    *)
(* field per request here, among the fields the scenario edits.            *)
(* The values a request may post for each field *)
FieldValues ==
    [f \in Fields |-> IF f \in {"exchange_1", "exchange_2"} THEN Venues
                      ELSE {s[f] : s \in AllSettings}]

OneFieldChanged(s, n) ==
    Cardinality({f \in Fields : s[f] # n[f]}) = 1

SaveSettings ==
    /\ calls.save < MaxSaves
    /\ settings.present
    /\ \E f \in env.editable : \E v \in FieldValues[f] :
         LET n == [settings EXCEPT ![f] = v]
         IN /\ OneFieldChanged(settings, n)
            /\ settings' = n
    /\ calls' = [calls EXCEPT !.save = @ + 1]
    /\ UNCHANGED <<running, tasks, clients, trades, ticks, botState, orders,
                   tickNo, env, halfOpenAt, peer,
                   closedLegs, connections, consumers>>

----------------------------------------------------------------------------
(* main_loop and update_state *)

(* The while test of main_loop *)
LoopCondition == running

(* Mutant: only the presence of the settings row and of exchange_1 tested *)
SettingsUsable_FirstVenueOnly(st) ==
    st.present /\ st.exchange_1 # ""

(* Step 1 of update_state: the settings row exists (no DoesNotExist) and   *)
(* `not exchange_1 or not exchange_2` is false.                            *)
SettingsUsable(st) ==
    st.present /\ st.exchange_1 # "" /\ st.exchange_2 # ""

(* Mutant: the loop never looks at the run flag *)
LoopTop_IgnoresFlag(t) ==
    /\ tasks[t].pc = "top"
    /\ IF env.scripted THEN env.feed # <<>> ELSE tickNo < env.maxTicks
    /\ tickNo' = tickNo + 1
    /\ tasks' = [tasks EXCEPT ![t] =
                    [NewTask EXCEPT !.pc = "fetch1", !.tick = tickNo + 1,
                                    !.st = settings,
                                    !.bot_active = botState.is_active]]
    /\ connections' = GetClient(connections, 1)
    /\ UNCHANGED <<running, settings, clients, trades, ticks, botState, orders,
                   calls, env, halfOpenAt, peer,
                   closedLegs, consumers>>

(* while self.running.get(key, False): ... update_state up to the first    *)
(* awaited snapshot request.                                               *)
LoopTop(t) ==
    /\ tasks[t].pc = "top"
    /\ IF ~LoopCondition
       THEN /\ tasks' = [tasks EXCEPT ![t] = IdleTask]
            /\ UNCHANGED <<tickNo>>
       ELSE /\ IF env.scripted THEN env.feed # <<>> ELSE tickNo < env.maxTicks
            /\ tickNo' = tickNo + 1
            /\ IF ~SettingsUsable(settings)
               THEN tasks' = [tasks EXCEPT ![t] = [NewTask EXCEPT !.pc = "sleep",
                                                                  !.tick = tickNo + 1]]
               ELSE \E sv \in SaveChoices :
                      tasks' = [tasks EXCEPT ![t] =
                         IF sv
                         THEN [NewTask EXCEPT !.pc = "fetch1", !.tick = tickNo + 1,
                                              !.st = settings,
                                              !.bot_active = botState.is_active]
                         ELSE Raised([NewTask EXCEPT !.tick = tickNo + 1], "save")]
    /\ connections' = IF tasks'[t].pc = "fetch1" THEN GetClient(connections, 1)
                      ELSE connections
    /\ UNCHANGED <<running, settings, clients, trades, ticks, botState, orders,
                   calls, env, halfOpenAt, peer,
                   closedLegs, consumers>>

SnapChoices(n) ==
    IF ~env.scripted
    THEN Snapshots \cup (IF "zero" \in env.faults THEN ZeroSnapshots ELSE {})
    ELSE IF env.feed = <<>> THEN {NoSnap}
    ELSE {Head(env.feed)[n]}

(* What create_order and the price lookup after it may yield: with the     *)
(* fault "ticker" also an order response without a price (and without a    *)
(* fee) whose price is then read from the ticker's last.                   *)
ResultChoices ==
    IF env.scripted THEN {"filled"}
    ELSE OrderResults \cup (IF "ticker" \in env.faults THEN {"ticker"} ELSE {})

(* _run_sync awaits run_in_executor with no timeout: when the client's     *)
(* call never returns (TRUE), the task stays suspended in that await.      *)
HangChoices == IF "hang" \in env.faults THEN BOOLEAN ELSE {FALSE}

(* snap1 arrives; the request for snap2 is issued *)
Fetch1(t) ==
    /\ tasks[t].pc = "fetch1"
    /\ \E h \in HangChoices, s \in SnapChoices(1) :
         tasks' = IF h THEN [tasks EXCEPT ![t].pc = "hung"]
                  ELSE [tasks EXCEPT ![t].snap1 = s, ![t].pc = "fetch2"]
    /\ connections' = IF tasks'[t].pc = "fetch2" THEN GetClient(connections, 2)
                      ELSE connections
    /\ UNCHANGED <<running, settings, clients, trades, ticks, botState, orders,
                   tickNo, calls, env, halfOpenAt, peer,
                   closedLegs, consumers>>

(* Mutant: the bids of the two snapshots are not tested *)
RealMarket_AsksOnly(s1, s2) ==
    /\ s1.ok /\ s2.ok
    /\ s1.ask # None /\ s2.ask # None

(* usable: both snapshots present and each carries a bid and an ask *)
RealMarket(s1, s2) ==
    /\ s1.ok /\ s2.ok
    /\ s1.bid # None /\ s2.bid # None
    /\ s1.ask # None /\ s2.ask # None

(* Mutant: the spreads guarded on the bid only, a zero ask counted as the  *)
(* smallest price step                                                     *)
WithQuotes_BidGuardOnly(loc, s2, q) ==
    LET real == RealMarket(loc.snap1, s2)
        b1 == IF real THEN loc.snap1.bid ELSE q.bid1
        a1 == IF real THEN loc.snap1.ask ELSE q.ask1
        b2 == IF real THEN s2.bid ELSE q.bid2
        a2 == IF real THEN s2.ask ELSE q.ask2
    IN [loc EXCEPT !.real = real, !.bid1 = b1, !.ask1 = a1, !.bid2 = b2, !.ask2 = a2,
                   !.os = SpreadPct(b2, IF a1 = 0 THEN 1 ELSE a1),
                   !.cs = SpreadPct(b1, IF a2 = 0 THEN 1 ELSE a2),
                   !.snap1 = NoSnap]

(* Lines 677-739: quotes (real or synthetic), spreads, tick window *)
WithQuotes(loc, s2, q) ==
    LET real == RealMarket(loc.snap1, s2)
        b1 == IF real THEN loc.snap1.bid ELSE q.bid1
        a1 == IF real THEN loc.snap1.ask ELSE q.ask1
        b2 == IF real THEN s2.bid ELSE q.bid2
        a2 == IF real THEN s2.ask ELSE q.ask2
    IN [loc EXCEPT !.real = real, !.bid1 = b1, !.ask1 = a1, !.bid2 = b2, !.ask2 = a2,
                   !.os = SpreadPct(b2, a1), !.cs = SpreadPct(b1, a2),
                   !.snap1 = NoSnap]

(* snap2 arrives; the rest of update_state runs up to its next await *)
Fetch2(t) ==
    /\ tasks[t].pc = "fetch2"
    /\ \E s2 \in SnapChoices(2), q \in SynthQuotes :
         LET loc == WithQuotes(tasks[t], s2, q)
             rs == IF loc.st.side = "LONG" THEN loc.os ELSE loc.cs
         IN /\ ticks' = [open  |-> Append1(ticks.open, Sample(loc.os)),
                         close |-> Append1(ticks.close, Sample(loc.cs)),
                         real  |-> Append1(ticks.real, Sample(rs)),
                         count |-> ticks.count + 1]
            /\ \E sv \in SaveChoices :
                 Commit(t, EntryStep([WorldWith(t, sv) EXCEPT !.loc = loc]))
    /\ env' = IF env.scripted /\ env.feed # <<>>
              THEN [env EXCEPT !.feed = Tail(@)] ELSE env
    /\ UNCHANGED <<running, settings, clients, orders, tickNo, calls, peer,
                   closedLegs, connections, consumers>>

Order(t, kind, leg, tid, req) ==
    [kind |-> kind, leg |-> leg, tid |-> tid,
     side |-> req.side, amount |-> req.amount, venue |-> req.venue,
     real |-> tasks[t].real]

(* Mutant: an accepted order whose price stayed unknown counts as a fill *)
LegFailed_PriceIgnored(r) == r = "fail"

(* if not leg or leg["price"] is None *)
LegFailed(r) == r \notin {"filled", "ticker"}

(* logger.error("Failed to open leg2, arbitrage HALF-OPEN ..."); return *)
HalfOpen(w) == [w EXCEPT !.ho = w.loc.tick]

(* Mutant: the run flag is tested after leg 1 and a stopped task abandons  *)
(* the tick.                                                               *)
AfterLeg1_StopAborts(w, r) ==
    IF ~running THEN [w EXCEPT !.loc = IdleTask]
    ELSE LET w1 == [w EXCEPT !.loc.leg1res = r]
         IN IF LegFailed(r) THEN ExitStep(w1)
            ELSE IF ~clients[2] THEN ExitStep(HalfOpen(w1))
            ELSE [w1 EXCEPT !.loc.pc = "open2",
                            !.loc.leg1 = FillPrice(Leg1Dir(w.loc.st.side), TRUE,
                                                   w.loc.bid1, w.loc.ask1)]

(* leg 1 of _open_arbitrage_position returns; without a client for         *)
(* exchange_2 the leg-2 _open_leg returns None before any order.           *)
AfterLeg1(w, r) ==
    LET w1 == [w EXCEPT !.loc.leg1res = r]
    IN IF LegFailed(r) THEN ExitStep(w1)
       ELSE IF ~clients[2] THEN ExitStep(HalfOpen(w1))
       ELSE [w1 EXCEPT !.loc.pc = "open2",
                       !.loc.leg1 = FillPrice(Leg1Dir(w.loc.st.side), TRUE,
                                              w.loc.bid1, w.loc.ask1)]

Open1(t) ==
    /\ tasks[t].pc = "open1"
    /\ \E h \in HangChoices, r \in ResultChoices :
         IF h
         THEN /\ tasks' = [tasks EXCEPT ![t].pc = "hung"]
              /\ UNCHANGED <<orders, trades, botState, halfOpenAt>>
         ELSE /\ orders' = orders \cup {Order(t, "open", 1, 0, OpenOrder(tasks[t], 1))}
              /\ \E sv \in SaveChoices : Commit(t, AfterLeg1(WorldWith(t, sv), r))
    /\ UNCHANGED <<running, settings, clients, ticks, tickNo, calls, env, peer,
                   closedLegs, connections, consumers>>

(* Trade.objects.create(...) of _open_arbitrage_position *)
NewTrade(loc, r2) ==
    LET e2 == FillPrice(Leg2Dir(loc.st.side), TRUE, loc.bid2, loc.ask2)
        f1 == ReturnedFee(loc.leg1res, loc.leg1, loc.st.order_size)
        f2 == ReturnedFee(r2, e2, loc.st.order_size)
    IN [status |-> "active", side |-> loc.st.side,
        dir1 |-> Leg1Dir(loc.st.side), dir2 |-> Leg2Dir(loc.st.side),
        ex1 |-> loc.st.exchange_1, ex2 |-> loc.st.exchange_2,
        amount |-> loc.st.order_size,
        entry1 |-> loc.leg1,
        entry2 |-> e2,
        fee_open1 |-> f1, fee_open2 |-> f2, fee_close |-> 0,
        fees |-> f1 + f2,
        pnl |-> 0,
        entry_spread |-> loc.os, otick |-> loc.tick,
        exit1 |-> None, exit2 |-> None, ctick |-> 0]

(* Mutant: a tick that opened a Position goes straight to its publish step *)
AfterLeg2_SkipExit(w, r) ==
    IF LegFailed(r) THEN ExitStep(HalfOpen(w))
    ELSE Publish([w EXCEPT !.tr = Append(w.tr, NewTrade(w.loc, r))])

(* leg 2 of _open_arbitrage_position returns *)
AfterLeg2(w, r) ==
    IF LegFailed(r) THEN ExitStep(HalfOpen(w))
    ELSE ExitStep([w EXCEPT !.tr = Append(w.tr, NewTrade(w.loc, r))])

Open2(t) ==
    /\ tasks[t].pc = "open2"
    /\ \E r \in ResultChoices :
         /\ orders' = orders \cup {Order(t, "open", 2, 0, OpenOrder(tasks[t], 2))}
         /\ \E sv \in SaveChoices : Commit(t, AfterLeg2(WorldWith(t, sv), r))
    /\ UNCHANGED <<running, settings, clients, ticks, tickNo, calls, env, peer,
                   closedLegs, connections, consumers>>

(* The venue's side of a closing order: when _close_leg returned a price   *)
(* the reversing order of that leg of the position was executed there.     *)
(* closedLegs keeps these <<position, leg>> pairs; the engine has no such  *)
(* record.                                                                 *)
ClosedNow(r, tid, leg) == IF LegFailed(r) THEN {} ELSE {<<tid, leg>>}

(* next iteration of the for loop of _close_all_arbitrage_positions *)
NextClose(w) == CloseLoop([w EXCEPT !.loc.ci = @ + 1, !.loc.l1c = "none"])

(* leg 1 _close_leg returns; leg 2 is closed whatever leg 1 returned *)
AfterClose1(w, r) ==
    IF clients[2] THEN [w EXCEPT !.loc.pc = "close2", !.loc.l1c = r]
    ELSE NextClose([w EXCEPT !.loc.last = [tid |-> w.loc.closing[w.loc.ci],
                                           l1 |-> ~LegFailed(r), l2 |-> FALSE]])

Close1(t) ==
    /\ tasks[t].pc = "close1"
    /\ \E r \in ResultChoices :
         LET tid == tasks[t].closing[tasks[t].ci]
         IN /\ orders' = orders \cup
                   {Order(t, "close", 1, tid, CloseOrder(tasks[t], trades[tid], 1))}
            /\ closedLegs' = closedLegs \cup ClosedNow(r, tid, 1)
            /\ \E sv \in SaveChoices : Commit(t, AfterClose1(WorldWith(t, sv), r))
    /\ UNCHANGED <<running, settings, clients, ticks, tickNo, calls, env, peer,
                   connections, consumers>>

(* exit prices, fees and PnL; trade.status = "completed"; trade.save() *)
CompleteTrade(tr, loc, r2) ==
    LET x1 == FillPrice(tr.dir1, FALSE, loc.bid1, loc.ask1)
        x2 == FillPrice(tr.dir2, FALSE, loc.bid2, loc.ask2)
        fc == ReturnedFee(loc.l1c, x1, tr.amount) + ReturnedFee(r2, x2, tr.amount)
        fee == tr.fees + fc
    IN [tr EXCEPT !.status = "completed",
                  !.exit1 = x1,
                  !.exit2 = x2,
                  !.fee_close = fc,
                  !.fees = fee,
                  !.pnl = PnlTotal(tr.side, tr.entry1, tr.entry2, x1, x2,
                                   tr.amount, fee),
                  !.ctick = loc.tick]

(* Mutant: the trade is completed as soon as leg 2 is closed *)
AfterClose2_OneLegEnough(w, r) ==
    LET tid == w.loc.closing[w.loc.ci]
        w1 == [w EXCEPT !.loc.last = [tid |-> tid, l1 |-> ~LegFailed(w.loc.l1c),
                                           l2 |-> ~LegFailed(r)]]
    IN IF ~LegFailed(r)
       THEN NextClose([w1 EXCEPT !.tr[tid] = CompleteTrade(w.tr[tid], w.loc, r)])
       ELSE NextClose(w1)

(* leg 2 _close_leg returns: continue unless both legs closed with a price *)
AfterClose2(w, r) ==
    LET tid == w.loc.closing[w.loc.ci]
        w1 == [w EXCEPT !.loc.last = [tid |-> tid, l1 |-> ~LegFailed(w.loc.l1c),
                                           l2 |-> ~LegFailed(r)]]
    IN IF ~LegFailed(w.loc.l1c) /\ ~LegFailed(r)
       THEN NextClose([w1 EXCEPT !.tr[tid] = CompleteTrade(w.tr[tid], w.loc, r)])
       ELSE NextClose(w1)

Close2(t) ==
    /\ tasks[t].pc = "close2"
    /\ \E r \in ResultChoices :
         LET tid == tasks[t].closing[tasks[t].ci]
         IN /\ orders' = orders \cup
                   {Order(t, "close", 2, tid, CloseOrder(tasks[t], trades[tid], 2))}
            /\ closedLegs' = closedLegs \cup ClosedNow(r, tid, 2)
            /\ \E sv \in SaveChoices : Commit(t, AfterClose2(WorldWith(t, sv), r))
    /\ UNCHANGED <<running, settings, clients, ticks, tickNo, calls, env, peer,
                   connections, consumers>>

(* The outcomes of group_send: TRUE when it returns, FALSE when the        *)
(* channel layer raises.                                                   *)
EmitChoices ==
    IF "emit" \in env.faults /\ ~env.scripted THEN BOOLEAN ELSE {TRUE}

(* Mutant: an emit that raises ends the control loop *)
Push_FailureEndsLoop(t) ==
    /\ tasks[t].pc = "push"
    /\ \E ok \in EmitChoices :
         tasks' = [tasks EXCEPT ![t] =
                      IF ok
                      THEN [NewTask EXCEPT !.pc = "sleep", !.tick = tasks[t].tick,
                                           !.io = tasks[t].io]
                      ELSE IdleTask]
    /\ consumers' = IF tasks'[t].pc = "sleep" THEN Deliver(consumers, EmitOp)
                    ELSE consumers
    /\ UNCHANGED <<running, settings, clients, trades, ticks, botState, orders,
                   tickNo, calls, env, halfOpenAt, peer,
                   closedLegs, connections>>

(* group_send returns: then asyncio.sleep(1.0); or it raises: main_loop    *)
(* logs the error and goes back to the while test without sleeping.        *)
Push(t) ==
    /\ tasks[t].pc = "push"
    /\ \E ok \in EmitChoices :
         tasks' = [tasks EXCEPT ![t] =
                      IF ok
                      THEN [NewTask EXCEPT !.pc = "sleep", !.tick = tasks[t].tick,
                                           !.io = tasks[t].io]
                      ELSE Raised(tasks[t], "emit")]
    /\ consumers' = IF tasks'[t].pc = "sleep" THEN Deliver(consumers, EmitOp)
                    ELSE consumers
    /\ UNCHANGED <<running, settings, clients, trades, ticks, botState, orders,
                   tickNo, calls, env, halfOpenAt, peer,
                   closedLegs, connections>>

(* asyncio.sleep(1.0) returns *)
Sleep(t) ==
    /\ tasks[t].pc = "sleep"
    /\ tasks' = [tasks EXCEPT ![t] = NewTask]
    /\ UNCHANGED <<running, settings, clients, trades, ticks, botState, orders,
                   tickNo, calls, env, halfOpenAt, peer,
                   closedLegs, connections, consumers>>

TaskStep(t) ==
    \/ LoopTop(t)
    \/ Fetch1(t)
    \/ Fetch2(t)
    \/ Open1(t)
    \/ Open2(t)
    \/ Close1(t)
    \/ Close2(t)
    \/ Push(t)
    \/ Sleep(t)

Next ==
    \/ Start
    \/ Stop
    \/ \E t \in TaskIds : TaskStep(t)

Spec == Init /\ [][Next]_vars

(* The same engine with stored settings that change between the steps *)
NextSave == Next \/ SaveSettings

SpecSave == Init /\ [][NextSave]_vars

(* One key with the default settings and up to RaceCalls start / stop      *)
(* requests, enough for a restart while the previous loop is still alive.  *)
InitRace ==
    /\ running = FALSE
    /\ tasks = [t \in TaskIds |-> IdleTask]
    /\ settings \in RaceSettings
    /\ clients = <<TRUE, TRUE>>
    /\ trades = <<>>
    /\ ticks = NoTicks
    /\ botState = [is_active |-> FALSE, data |-> NoData]
    /\ orders = {}
    /\ tickNo = 0
    /\ calls = [start |-> 0, stop |-> 0, save |-> 0]
    /\ halfOpenAt = 0
    /\ peer = IdlePeer
    /\ closedLegs = {}
    /\ connections = NewConnections(clients)
    /\ consumers = NoConsumers
    /\ env = [scripted |-> FALSE, feed |-> <<>>, maxCalls |-> RaceCalls,
             maxTicks |-> RaceTicks,
             editable |-> Fields,
             faults |-> {"emit"}, db |-> "up"]

SpecRace == InitRace /\ [][Next]_vars

(* The event loop runs every task that is ready: each awaited call returns *)
(* and the task is resumed.                                                *)
InitStop ==
    /\ running = FALSE
    /\ tasks = [t \in TaskIds |-> IdleTask]
    /\ settings \in RaceSettings
    /\ clients = <<TRUE, TRUE>>
    /\ trades = <<>>
    /\ ticks = NoTicks
    /\ botState = [is_active |-> FALSE, data |-> NoData]
    /\ orders = {}
    /\ tickNo = 0
    /\ calls = [start |-> 0, stop |-> 0, save |-> 0]
    /\ halfOpenAt = 0
    /\ peer = IdlePeer
    /\ closedLegs = {}
    /\ connections = NewConnections(clients)
    /\ consumers = NoConsumers
    /\ env = [scripted |-> FALSE, feed |-> <<>>, maxCalls |-> StopCalls,
             maxTicks |-> StopTicks,
             editable |-> Fields,
             faults |-> {"emit"}, db |-> "up"]

SpecStop == InitStop /\ [][Next]_vars

(* One key started with the default settings, whose stored settings are    *)
(* edited through save_symbol_settings while the loop runs.                *)
InitEdit ==
    /\ running = FALSE
    /\ tasks = [t \in TaskIds |-> IdleTask]
    /\ settings \in RaceSettings
    /\ clients = <<TRUE, TRUE>>
    /\ trades = <<>>
    /\ ticks = NoTicks
    /\ botState = [is_active |-> FALSE, data |-> NoData]
    /\ orders = {}
    /\ tickNo = 0
    /\ calls = [start |-> 0, stop |-> 0, save |-> 0]
    /\ halfOpenAt = 0
    /\ peer = IdlePeer
    /\ closedLegs = {}
    /\ connections = NewConnections(clients)
    /\ consumers = NoConsumers
    /\ env = [scripted |-> FALSE, feed |-> <<>>, maxCalls |-> EditCalls,
             maxTicks |-> EditTicks,
             editable |-> {"side", "order_size", "force_stop"},
             faults |-> {"emit"}, db |-> "up"]

SpecEdit == InitEdit /\ [][NextSave]_vars

(* One key with the default settings on venues that may report a zero      *)
(* price.                                                                  *)
InitZero ==
    /\ running = FALSE
    /\ tasks = [t \in TaskIds |-> IdleTask]
    /\ settings \in RaceSettings
    /\ clients = <<TRUE, TRUE>>
    /\ trades = <<>>
    /\ ticks = NoTicks
    /\ botState = [is_active |-> FALSE, data |-> NoData]
    /\ orders = {}
    /\ tickNo = 0
    /\ calls = [start |-> 0, stop |-> 0, save |-> 0]
    /\ halfOpenAt = 0
    /\ peer = IdlePeer
    /\ closedLegs = {}
    /\ connections = NewConnections(clients)
    /\ consumers = NoConsumers
    /\ env = [scripted |-> FALSE, feed |-> <<>>, maxCalls |-> ZeroCalls,
             maxTicks |-> ZeroTicks,
             editable |-> Fields,
             faults |-> {"zero", "emit"}, db |-> "up"]

SpecZero == InitZero /\ [][Next]_vars

(* One key with the default settings on a database whose writes of the     *)
(* BotState row may raise.                                                 *)
InitFault ==
    /\ running = FALSE
    /\ tasks = [t \in TaskIds |-> IdleTask]
    /\ settings \in RaceSettings
    /\ clients = <<TRUE, TRUE>>
    /\ trades = <<>>
    /\ ticks = NoTicks
    /\ botState = [is_active |-> FALSE, data |-> NoData]
    /\ orders = {}
    /\ tickNo = 0
    /\ calls = [start |-> 0, stop |-> 0, save |-> 0]
    /\ halfOpenAt = 0
    /\ peer = IdlePeer
    /\ closedLegs = {}
    /\ connections = NewConnections(clients)
    /\ consumers = NoConsumers
    /\ env = [scripted |-> FALSE, feed |-> <<>>, maxCalls |-> FaultCalls,
             maxTicks |-> FaultTicks,
             editable |-> Fields,
             faults |-> {"save", "emit"}, db |-> "up"]

SpecFault == InitFault /\ [][Next]_vars

(* One key with the default settings on a channel layer whose group_send   *)
(* may raise; every awaited call of a live task returns or raises.         *)
InitEmit ==
    /\ running = FALSE
    /\ tasks = [t \in TaskIds |-> IdleTask]
    /\ settings \in RaceSettings
    /\ clients = <<TRUE, TRUE>>
    /\ trades = <<>>
    /\ ticks = NoTicks
    /\ botState = [is_active |-> FALSE, data |-> NoData]
    /\ orders = {}
    /\ tickNo = 0
    /\ calls = [start |-> 0, stop |-> 0, save |-> 0]
    /\ halfOpenAt = 0
    /\ peer = IdlePeer
    /\ closedLegs = {}
    /\ connections = NewConnections(clients)
    /\ consumers = NoConsumers
    /\ env = [scripted |-> FALSE, feed |-> <<>>, maxCalls |-> EmitCalls,
             maxTicks |-> EmitTicks,
             editable |-> Fields,
             faults |-> {"emit"}, db |-> "up"]

SpecEmit == InitEmit /\ [][Next]_vars

FairEmit == SpecEmit /\ \A t \in TaskIds : WF_vars(TaskStep(t))

(* One key with the default settings on venues whose calls may never       *)
(* return; every call that does return is resumed.                         *)
InitHang ==
    /\ running = FALSE
    /\ tasks = [t \in TaskIds |-> IdleTask]
    /\ settings \in RaceSettings
    /\ clients = <<TRUE, TRUE>>
    /\ trades = <<>>
    /\ ticks = NoTicks
    /\ botState = [is_active |-> FALSE, data |-> NoData]
    /\ orders = {}
    /\ tickNo = 0
    /\ calls = [start |-> 0, stop |-> 0, save |-> 0]
    /\ halfOpenAt = 0
    /\ peer = IdlePeer
    /\ closedLegs = {}
    /\ connections = NewConnections(clients)
    /\ consumers = NoConsumers
    /\ env = [scripted |-> FALSE, feed |-> <<>>, maxCalls |-> HangCalls,
             maxTicks |-> HangTicks,
             editable |-> Fields,
             faults |-> {"hang", "emit"}, db |-> "up"]

SpecHang == InitHang /\ [][Next]_vars

FairHang == SpecHang /\ \A t \in TaskIds : WF_vars(TaskStep(t))

(* Task t raised and has not suspended since: it is running main_loop's    *)
(* except branch, the while test and the synchronous head of the next      *)
(* update_state on the engine's single event-loop thread.                  *)
Spinning(t) == tasks[t].pc = "top" /\ tasks[t].err # "none"

(* The event loop can run another callback or task *)
LoopFree == \A t \in TaskIds : ~Spinning(t)

(* start_bot / stop_bot for the second key: after its own write of the     *)
(* BotState row (which needs the database), the view thread queues the     *)
(* coroutine on the engine's loop through start_background /               *)
(* stop_background and returns.                                            *)
PeerRequest ==
    /\ env.db = "up"
    /\ peer.pending = "none"
    /\ \E op \in {"start", "stop"} : peer' = [peer EXCEPT !.pending = op]
    /\ UNCHANGED <<running, tasks, settings, clients, trades, ticks, botState,
                   orders, tickNo, calls, env, halfOpenAt,
                   closedLegs, connections, consumers>>

(* The event loop runs the queued TradeEngine.start / stop of the second   *)
(* key.                                                                    *)
PeerEngine ==
    /\ LoopFree
    /\ peer.pending # "none"
    /\ peer' = IF peer.pending = "stop"
               THEN [peer EXCEPT !.pending = "none", !.running = FALSE]
               ELSE IF peer.running \/ peer.pc # "none"
               THEN [peer EXCEPT !.pending = "none", !.running = TRUE]
               ELSE [peer EXCEPT !.pending = "none", !.running = TRUE,
                                 !.pc = "ready"]
    /\ UNCHANGED <<running, tasks, settings, clients, trades, ticks, botState,
                   orders, tickNo, calls, env, halfOpenAt,
                   closedLegs, connections, consumers>>

(* The event loop resumes the second key's main_loop: the while test and   *)
(* a tick up to its next await.                                            *)
PeerTick ==
    /\ LoopFree
    /\ peer.pc = "ready"
    /\ peer' = IF ~peer.running THEN [peer EXCEPT !.pc = "none"]
               ELSE [peer EXCEPT !.pc = "wait",
                                 !.window = IF @ < WindowCap THEN @ + 1 ELSE @]
    /\ UNCHANGED <<running, tasks, settings, clients, trades, ticks, botState,
                   orders, tickNo, calls, env, halfOpenAt,
                   closedLegs, connections, consumers>>

(* The call or sleep the second key's task awaits completes *)
PeerWake ==
    /\ peer.pc = "wait"
    /\ peer' = [peer EXCEPT !.pc = "ready"]
    /\ UNCHANGED <<running, tasks, settings, clients, trades, ticks, botState,
                   orders, tickNo, calls, env, halfOpenAt,
                   closedLegs, connections, consumers>>

(* The database becomes unreachable, between two ticks of the first key,   *)
(* and stays so.                                                           *)
DbDown ==
    /\ "db" \in env.faults
    /\ env.db = "up"
    /\ \A t \in TaskIds : ~InTick(t)
    /\ env' = [env EXCEPT !.db = "down"]
    /\ UNCHANGED <<running, tasks, settings, clients, trades, ticks, botState,
                   orders, tickNo, calls, halfOpenAt, peer,
                   closedLegs, connections, consumers>>

NextKeys ==
    \/ Next
    \/ DbDown
    \/ PeerRequest
    \/ PeerEngine
    \/ PeerTick
    \/ PeerWake

(* Two keys on one engine and a database that may become unreachable.      *)
InitKeys ==
    /\ running = FALSE
    /\ tasks = [t \in TaskIds |-> IdleTask]
    /\ settings \in RaceSettings
    /\ clients = <<TRUE, TRUE>>
    /\ trades = <<>>
    /\ ticks = NoTicks
    /\ botState = [is_active |-> FALSE, data |-> NoData]
    /\ orders = {}
    /\ tickNo = 0
    /\ calls = [start |-> 0, stop |-> 0, save |-> 0]
    /\ halfOpenAt = 0
    /\ peer = IdlePeer
    /\ closedLegs = {}
    /\ connections = NewConnections(clients)
    /\ consumers = NoConsumers
    /\ env = [scripted |-> FALSE, feed |-> <<>>, maxCalls |-> KeysCalls,
             maxTicks |-> KeysTicks,
             editable |-> Fields,
             faults |-> {"db"}, db |-> "up"]

SpecKeys == InitKeys /\ [][NextKeys]_vars

(* The event loop resumes every task and runs every callback that is ready *)
(* whenever it is free; every awaited call returns.                        *)
FairKeys ==
    /\ SpecKeys
    /\ \A t \in TaskIds : WF_vars(TaskStep(t))
    /\ WF_vars(PeerEngine) /\ WF_vars(PeerTick) /\ WF_vars(PeerWake)

FairStop == SpecStop /\ \A t \in TaskIds : WF_vars(TaskStep(t))

(* One key with the default settings on venues whose order responses may   *)
(* come without a price and without a fee.                                 *)
InitFee ==
    /\ running = FALSE
    /\ tasks = [t \in TaskIds |-> IdleTask]
    /\ settings \in RaceSettings
    /\ clients = <<TRUE, TRUE>>
    /\ trades = <<>>
    /\ ticks = NoTicks
    /\ botState = [is_active |-> FALSE, data |-> NoData]
    /\ orders = {}
    /\ tickNo = 0
    /\ calls = [start |-> 0, stop |-> 0, save |-> 0]
    /\ halfOpenAt = 0
    /\ peer = IdlePeer
    /\ closedLegs = {}
    /\ connections = NewConnections(clients)
    /\ consumers = NoConsumers
    /\ env = [scripted |-> FALSE, feed |-> <<>>, maxCalls |-> FeeCalls,
             maxTicks |-> FeeTicks,
             editable |-> Fields,
             faults |-> {"ticker"}, db |-> "up"]

SpecFee == InitFee /\ [][Next]_vars

(* One key started with the default settings of a user connected to every  *)
(* venue (clients[i] is the client of the venue named in exchange_i),      *)
(* whose exchange_1 is changed through save_symbol_settings while the loop *)
(* runs.                                                                   *)
InitVenue ==
    /\ running = FALSE
    /\ tasks = [t \in TaskIds |-> IdleTask]
    /\ settings \in RaceSettings
    /\ clients = <<TRUE, TRUE>>
    /\ trades = <<>>
    /\ ticks = NoTicks
    /\ botState = [is_active |-> FALSE, data |-> NoData]
    /\ orders = {}
    /\ tickNo = 0
    /\ calls = [start |-> 0, stop |-> 0, save |-> 0]
    /\ halfOpenAt = 0
    /\ peer = IdlePeer
    /\ closedLegs = {}
    /\ connections = NewConnections(clients)
    /\ consumers = NoConsumers
    /\ env = [scripted |-> FALSE, feed |-> <<>>, maxCalls |-> VenueCalls,
             maxTicks |-> VenueTicks,
             editable |-> {"exchange_1"},
             faults |-> {}, db |-> "up"]

SpecVenue == InitVenue /\ [][NextSave]_vars

(* disconnect_exchange for the venue of exchange_i: the ExchangeConnection *)
(* row is set inactive and the client kept by exchange_service is dropped; *)
(* the engine's own cache self.ccxt_clients is not touched, so the engine  *)
(* still gets a client for the venue iff it had cached one.                *)
Disconnect(i) ==
    /\ connections.active[i]
    /\ connections' = [connections EXCEPT !.active[i] = FALSE]
    /\ clients' = [clients EXCEPT ![i] = connections.cached[i]]
    /\ UNCHANGED <<running, tasks, settings, trades, ticks, botState, orders,
                   tickNo, calls, env, halfOpenAt, peer, closedLegs, consumers>>

NextConn == Next \/ \E i \in 1..2 : Disconnect(i)

(* One key with the default settings of a user who may disconnect either   *)
(* venue while the loop runs.                                              *)
InitConn ==
    /\ running = FALSE
    /\ tasks = [t \in TaskIds |-> IdleTask]
    /\ settings \in RaceSettings
    /\ clients = <<TRUE, TRUE>>
    /\ trades = <<>>
    /\ ticks = NoTicks
    /\ botState = [is_active |-> FALSE, data |-> NoData]
    /\ orders = {}
    /\ tickNo = 0
    /\ calls = [start |-> 0, stop |-> 0, save |-> 0]
    /\ halfOpenAt = 0
    /\ peer = IdlePeer
    /\ closedLegs = {}
    /\ connections = NewConnections(clients)
    /\ consumers = NoConsumers
    /\ env = [scripted |-> FALSE, feed |-> <<>>, maxCalls |-> ConnCalls,
             maxTicks |-> ConnTicks,
             editable |-> Fields,
             faults |-> {}, db |-> "up"]

SpecConn == InitConn /\ [][NextConn]_vars

(* TradingConsumer.connect: the socket of the key's user is accepted and   *)
(* its channel joins the consumer's group.                                 *)
WsConnect ==
    /\ ~consumers.connected
    /\ consumers' = [consumers EXCEPT !.connected = TRUE, !.group = ConsumerGroup]
    /\ UNCHANGED <<running, tasks, settings, clients, trades, ticks, botState,
                   orders, tickNo, calls, env, halfOpenAt, peer, closedLegs,
                   connections>>

(* TradingConsumer.disconnect: group_discard *)
WsDisconnect ==
    /\ consumers.connected
    /\ consumers' = [consumers EXCEPT !.connected = FALSE, !.group = "none"]
    /\ UNCHANGED <<running, tasks, settings, clients, trades, ticks, botState,
                   orders, tickNo, calls, env, halfOpenAt, peer, closedLegs,
                   connections>>

NextWs == Next \/ WsConnect \/ WsDisconnect

(* One key with the default settings whose user opens and closes the       *)
(* dashboard's websocket while the loop runs.                              *)
InitWs ==
    /\ running = FALSE
    /\ tasks = [t \in TaskIds |-> IdleTask]
    /\ settings \in RaceSettings
    /\ clients = <<TRUE, TRUE>>
    /\ trades = <<>>
    /\ ticks = NoTicks
    /\ botState = [is_active |-> FALSE, data |-> NoData]
    /\ orders = {}
    /\ tickNo = 0
    /\ calls = [start |-> 0, stop |-> 0, save |-> 0]
    /\ halfOpenAt = 0
    /\ peer = IdlePeer
    /\ closedLegs = {}
    /\ connections = NewConnections(clients)
    /\ consumers = NoConsumers
    /\ env = [scripted |-> FALSE, feed |-> <<>>, maxCalls |-> WsCalls,
             maxTicks |-> WsTicks,
             editable |-> Fields,
             faults |-> {}, db |-> "up"]

SpecWs == InitWs /\ [][NextWs]_vars


(* The run of section 8 of the specification: side LONG, entry threshold   *)
(* 0.2%, one position at most, real quotes and successful fills, over the  *)
(* open spreads 0.1, 0.15, 0.25, 0.3 (ask_1 = 2000, bid_2 = 2002, 2003,    *)
(* 2005, 2006).  The exit threshold is the default 0.05% of                *)
(* get_symbol_state or a threshold the quotes never reach.                 *)
Quote(b, a) == [bid |-> b, ask |-> a, ok |-> TRUE]

SpreadFeed ==
    << <<Quote(1999, 2000), Quote(2002, 2003)>>,
       <<Quote(1999, 2000), Quote(2003, 2004)>>,
       <<Quote(1999, 2000), Quote(2005, 2006)>>,
       <<Quote(1999, 2000), Quote(2006, 2007)>> >>

FeedSettings ==
    {[present |-> TRUE, exchange_1 |-> "bybit", exchange_2 |-> "gateio",
      side |-> "LONG", open_spread |-> 20, close_spread |-> c, order_size |-> 1,
      max_orders |-> 1, force_stop |-> FALSE, total_stop |-> FALSE] :
        c \in {5, -100}}

InitFeed ==
    /\ running = FALSE
    /\ tasks = [t \in TaskIds |-> IdleTask]
    /\ settings \in FeedSettings
    /\ clients = <<TRUE, TRUE>>
    /\ trades = <<>>
    /\ ticks = NoTicks
    /\ botState = [is_active |-> FALSE, data |-> NoData]
    /\ orders = {}
    /\ tickNo = 0
    /\ calls = [start |-> 0, stop |-> 0, save |-> 0]
    /\ halfOpenAt = 0
    /\ peer = IdlePeer
    /\ closedLegs = {}
    /\ connections = NewConnections(clients)
    /\ consumers = NoConsumers
    /\ env = [scripted |-> TRUE, feed |-> SpreadFeed, maxCalls |-> StopCalls,
             maxTicks |-> Len(SpreadFeed),
             editable |-> Fields,
             faults |-> {"emit"}, db |-> "up"]

SpecFeed == InitFeed /\ [][Next]_vars

----------------------------------------------------------------------------
(* Properties *)

PostEntry(t) == tasks[t].pc \in {"open1", "open2", "close1", "close2", "push"}
PostExit(t) == tasks[t].pc \in {"close1", "close2", "push"}

(* Task t placed the leg-1 opening order in its tick in flight *)
OpenedInTick(t) == InTick(t) /\ tasks[t].leg1res # "none"

(* The ticks in which a Position was opened *)
OpenTicks == {trades[i].otick : i \in 1..Len(trades)}

(* C1: a Start on a key whose run flag is set changes neither the run flag *)
(* nor the set of tasks, and as long as no Stop was issued, two or more    *)
(* Start calls leave exactly one live control loop.                        *)
C1_StartIdempotent ==
    /\ [][(calls'.start # calls.start /\ running)
            => (running' = running /\ tasks' = tasks)]_vars
    /\ []((calls.stop = 0 /\ calls.start >= 2) => Cardinality(LiveTasks) = 1)

C1_Witness ==
    calls.start = 2 /\ calls.stop = 0 /\ running /\ Cardinality(LiveTasks) = 1

(* C2: at most one control-loop task is live for the key, whatever the     *)
(* interleaving of Start, Stop and the loop's ticks.                       *)
C2_AtMostOneLoop == Cardinality(LiveTasks) <= 1

(* C3: with max_concurrent_positions = 1, two tasks never both place       *)
(* opening orders in their ticks in flight (one entry condition, one       *)
(* opening order pair).                                                    *)
C3_NoDuplicateOpen ==
    settings.max_orders = 1 =>
        ~ \E t1, t2 \in TaskIds :
            /\ t1 # t2
            /\ OpenedInTick(t1)
            /\ OpenedInTick(t2)

(* C4: a tick begins only while the run flag is set, and once the flag     *)
(* stays cleared (Stop with no later Start) every loop of the key          *)
(* eventually exits.                                                       *)
C4_StopEndsLoop ==
    /\ [][tickNo' # tickNo => running]_vars
    /\ (<>[](~running)) => <>[](LiveTasks = {})

C4_Witness ==
    calls.stop >= 1 /\ ~running /\ tickNo >= 1 /\ LiveTasks = {}

(* C5: a started tick is left only through its persist/publish step, and   *)
(* a filled leg-1 order is followed by the leg-2 attempt, also when the    *)
(* run flag was cleared in the middle of the tick.                         *)
C5_TickNotInterrupted ==
    [][\A t \in TaskIds :
         /\ (InTick(t) /\ ~InTick(t)')
               => (tasks[t].pc = "push" /\ tasks'[t].pc \in {"sleep", "top"})
         /\ (tasks[t].pc = "open1" /\ tasks'[t] # tasks[t]
             /\ tasks'[t].leg1res = "filled" /\ clients[2])
               => tasks'[t].pc = "open2"]_vars

C5_Witness ==
    \E t \in TaskIds :
        ~running /\ calls.stop >= 1 /\ tasks[t].pc = "open2"
        /\ tasks[t].leg1res = "filled"

(* C6: every order was placed in a tick whose real_market flag is true,    *)
(* and a tick's real_market flag is true only with the bid and the ask of  *)
(* both venues' snapshots (never the synthetic quotes).                    *)
C6_OrdersOnlyOnRealMarket ==
    /\ \A o \in orders : o.real
    /\ \A t \in TaskIds :
         (PostEntry(t) /\ tasks[t].real)
            => /\ tasks[t].bid1 \in Bids /\ tasks[t].ask1 \in Asks
               /\ tasks[t].bid2 \in Bids /\ tasks[t].ask2 \in Asks

C6_Witness ==
    /\ orders # {}
    /\ \E t \in TaskIds : tasks[t].pc = "push" /\ ~tasks[t].real

(* C7: the number of active Positions never exceeds the stored             *)
(* max_concurrent_positions setting, also when the setting is 0.           *)
C7_ActiveWithinMax ==
    settings.present => Cardinality(ActiveIds(trades)) <= settings.max_orders

(* C8: over the open spreads 0.1, 0.15, 0.25, 0.3 with threshold 0.2 the   *)
(* entry fires exactly once, at the third tick (spread 0.25), and not      *)
(* again at the fourth.                                                    *)
C8_EntryFiresOnce ==
    (env.scripted /\ env.feed = <<>> /\ \A t \in TaskIds : ~InTick(t))
        => OpenTicks = {3}

(* The entry condition as the claim words it *)
ClaimedOpenCondition(side, thr, os) ==
    \/ side = "LONG" /\ os >= thr
    \/ side = "SHORT" /\ thr > 0 /\ os <= -thr
    \/ side = "SHORT" /\ thr <= 0 /\ os <= thr

EntryAllowed(t) ==
    /\ tasks[t].real
    /\ ~tasks[t].st.force_stop /\ ~tasks[t].st.total_stop
    /\ tasks[t].nact < tasks[t].st.max_orders

(* C9: in a tick where entry is allowed, the open operation is invoked iff *)
(* open_spread >= threshold (LONG), or open_spread <= -threshold for a     *)
(* positive and <= threshold for a non-positive threshold (SHORT).         *)
C9_EntryCondition ==
    \A t \in TaskIds :
        (PostEntry(t) /\ EntryAllowed(t))
           => (tasks[t].openInv
                 <=> ClaimedOpenCondition(tasks[t].st.side, tasks[t].st.open_spread,
                                          tasks[t].os))

C9_Witness ==
    \E t \in TaskIds :
        /\ PostEntry(t) /\ EntryAllowed(t)
        /\ tasks[t].st.side = "SHORT" /\ tasks[t].st.open_spread <= 0
        /\ tasks[t].openInv

(* The exit condition as the claim words it *)
ClaimedCloseCondition(side, thr, cs) ==
    \/ side = "LONG" /\ cs <= thr
    \/ side = "SHORT" /\ thr > 0 /\ cs >= -thr
    \/ side = "SHORT" /\ thr <= 0 /\ cs >= thr

ExitEvaluated(t) ==
    /\ PostExit(t)
    /\ tasks[t].real
    /\ tasks[t].exitAct # {}
    /\ ~tasks[t].st.force_stop /\ ~tasks[t].st.total_stop

(* C10: in a real-market tick with an active position and no kill switch   *)
(* the close operation is invoked iff the exit condition holds, and when   *)
(* it was invoked a close was attempted for every position that was        *)
(* active at the exit step by the time the tick reaches its publish step.  *)
C10_ExitCondition ==
    \A t \in TaskIds :
        ExitEvaluated(t)
           => /\ tasks[t].closeInv
                   <=> ClaimedCloseCondition(tasks[t].st.side,
                                             tasks[t].st.close_spread, tasks[t].cs)
              /\ (tasks[t].closeInv /\ tasks[t].pc = "push")
                   => tasks[t].attempted = tasks[t].exitAct

C10_Witness ==
    \E t \in TaskIds :
        /\ ExitEvaluated(t) /\ tasks[t].pc = "push"
        /\ tasks[t].st.side = "SHORT" /\ tasks[t].st.close_spread > 0
        /\ tasks[t].closeInv
        /\ Cardinality(tasks[t].exitAct) = 2
        /\ tasks[t].attempted = tasks[t].exitAct

(* The tick of task t read a kill switch from the settings *)
KillSet(t) == tasks[t].st.force_stop \/ tasks[t].st.total_stop

(* C11: in a real-market tick whose settings carry force_stop or           *)
(* total_stop and that found active positions, the close operation is      *)
(* invoked whatever the close spread, and by the publish step a close was  *)
(* attempted for every one of these positions.                             *)
C11_KillSwitchClosesAll ==
    \A t \in TaskIds :
        (PostExit(t) /\ tasks[t].real /\ KillSet(t) /\ ActiveIds(trades) # {})
           => /\ tasks[t].closeInv
              /\ tasks[t].exitAct # {}
              /\ tasks[t].pc = "push" => tasks[t].attempted = tasks[t].exitAct

C11_Witness ==
    \E t \in TaskIds :
        /\ tasks[t].pc = "push" /\ tasks[t].real /\ KillSet(t)
        /\ ~CloseCondition(tasks[t].st, tasks[t].cs)
        /\ tasks[t].exitAct # {}
        /\ tasks[t].attempted = tasks[t].exitAct

(* C12: a tick whose settings carry force_stop or total_stop never invokes *)
(* the open operation and places no opening order.                         *)
C12_KillSwitchBlocksEntry ==
    \A t \in TaskIds :
        (PostEntry(t) /\ KillSet(t))
           => /\ ~tasks[t].openInv
              /\ tasks[t].leg1res = "none"
              /\ tasks[t].pc \notin {"open1", "open2"}

C12_Witness ==
    \E t \in TaskIds :
        /\ tasks[t].pc = "push" /\ KillSet(t) /\ tasks[t].real
        /\ OpenCondition(tasks[t].st, tasks[t].os)
        /\ tasks[t].nact < tasks[t].st.max_orders
        /\ ~tasks[t].openInv

(* C13: a task waits for the leg-2 opening order only after its leg-1      *)
(* order returned a fill with a known price; when leg 1 fails (error or    *)
(* unknown price) the step submits no leg-2 order and leaves the stored    *)
(* positions and the half-open log as they were.                           *)
C13_Leg2AfterLeg1Fill ==
    [][\A t \in TaskIds :
         /\ (tasks[t].pc # "open2" /\ tasks'[t].pc = "open2")
               => /\ tasks[t].pc = "open1"
                  /\ tasks'[t].leg1res = "filled"
                  /\ tasks'[t].leg1 # None
         /\ (tasks[t].pc = "open1" /\ tasks'[t] # tasks[t]
             /\ tasks'[t].leg1res # "filled")
               => /\ tasks'[t].pc # "open2"
                  /\ trades' = trades
                  /\ halfOpenAt' = halfOpenAt]_vars

C13_Witness ==
    \E t \in TaskIds :
        /\ tasks[t].pc = "push" /\ tasks[t].leg1res = "noprice"
        /\ trades = <<>>

(* C14: after a tick in which leg 1 filled and leg 2 failed, a Position    *)
(* opened in that tick is among the stored positions.                      *)
C14_HalfOpenRecorded ==
    halfOpenAt # 0 => \E i \in 1..Len(trades) : trades[i].otick = halfOpenAt

(* C15: with max_concurrent_positions = 1, once leg 1 filled and leg 2     *)
(* failed in a tick, no leg-2 opening order is submitted again in that     *)
(* tick or in the next one.                                                *)
C15_NoSecondLeg2 ==
    [][(halfOpenAt # 0 /\ settings.max_orders = 1)
         => \A t \in TaskIds :
              (tasks[t].pc # "open2" /\ tasks'[t].pc = "open2")
                 => tasks'[t].tick \notin {halfOpenAt, halfOpenAt + 1}]_vars

(* C16: a position whose closing pair did not return two fills with known  *)
(* prices is still active with no exit price, no closing fee, no PnL and   *)
(* no closing tick, and every tick that invokes the close operation        *)
(* selects every active position.                                          *)
C16_FailedCloseStaysActive ==
    \A t \in TaskIds :
        /\ (PostExit(t) /\ tasks[t].last.tid # 0
             /\ ~(tasks[t].last.l1 /\ tasks[t].last.l2))
              => LET tr == trades[tasks[t].last.tid]
                 IN /\ tr.status = "active"
                    /\ tr.exit1 = None /\ tr.exit2 = None
                    /\ tr.pnl = 0 /\ tr.ctick = 0
                    /\ tr.fees = LegFee(tr.entry1, tr.amount) + LegFee(tr.entry2, tr.amount)
        /\ (PostExit(t) /\ tasks[t].closeInv)
              => ActiveIds(trades) \subseteq tasks[t].exitAct

C16_Witness ==
    \E t \in TaskIds :
        /\ tasks[t].pc = "close1"
        /\ LET i == tasks[t].closing[tasks[t].ci]
           IN /\ trades[i].status = "active"
              /\ trades[i].otick < tasks[t].tick
              /\ \E o \in orders : o.kind = "close" /\ o.tid = i /\ o.leg = 1

(* The closing order as the claim words it: opposite to the stored         *)
(* direction of the leg.                                                   *)
ClaimedCloseSide(dir) == IF dir = "long" THEN "sell" ELSE "buy"

(* C17: every closing order has the side opposite to the direction stored  *)
(* in its Position for that leg and the amount stored in the Position,     *)
(* also after the settings' side or order_size were changed.               *)
C17_CloseUsesStored ==
    \A o \in orders :
        o.kind = "close"
           => /\ o.side = ClaimedCloseSide(IF o.leg = 1 THEN trades[o.tid].dir1
                                                        ELSE trades[o.tid].dir2)
              /\ o.amount = trades[o.tid].amount

C17_Witness ==
    \E t \in TaskIds :
        /\ tasks[t].pc = "close2"
        /\ LET i == tasks[t].closing[tasks[t].ci]
           IN /\ (tasks[t].st.side # trades[i].side
                   \/ tasks[t].st.order_size # trades[i].amount)
              /\ \E o \in orders : o.kind = "close" /\ o.tid = i /\ o.leg = 1

(* Profit of one leg as the claim words it, by the leg's direction *)
ClaimedLegProfit(dir, entry, exit, amount) ==
    IF dir = "long" THEN (exit - entry) * amount ELSE (entry - exit) * amount

(* C18: the PnL of every closed Position is the sum of its two leg profits *)
(* minus its opening and closing fees; side LONG with entries 100/101,     *)
(* exits 99/100 and amount 1 gives minus the total fees.                   *)
C18_PnlFormula ==
    /\ \A i \in 1..Len(trades) :
         trades[i].status = "completed"
            => LET tr == trades[i]
               IN /\ tr.fees = LegFee(tr.entry1, tr.amount) + LegFee(tr.entry2, tr.amount)
                                + LegFee(tr.exit1, tr.amount) + LegFee(tr.exit2, tr.amount)
                  /\ tr.pnl = (ClaimedLegProfit(tr.dir1, tr.entry1, tr.exit1, tr.amount)
                               + ClaimedLegProfit(tr.dir2, tr.entry2, tr.exit2, tr.amount))
                              * MoneyScale - tr.fees
    /\ \A f \in 0..3 : PnlTotal("LONG", 100, 101, 99, 100, 1, f) = -f

C18_Witness ==
    \E i \in 1..Len(trades) :
        /\ trades[i].status = "completed"
        /\ trades[i].side = "SHORT"
        /\ trades[i].pnl # -trades[i].fees

WindowOK(arr) ==
    /\ Len(arr) <= WindowCap
    /\ Len(arr) = IF ticks.count < WindowCap THEN ticks.count ELSE WindowCap
    /\ \A j \in 1..Len(arr) : arr[j].n = ticks.count - Len(arr) + j

(* C19: each of the three tick windows holds at most the capacity and      *)
(* exactly the most recent samples, in the order of their appends.         *)
C19_WindowBounded ==
    WindowOK(ticks.open) /\ WindowOK(ticks.close) /\ WindowOK(ticks.real)

C19_Witness ==
    /\ ticks.count > WindowCap
    /\ Len(ticks.open) = WindowCap
    /\ ticks.open[1].n = ticks.count - WindowCap + 1

(* The open spread as the claim words it, in 0.01 percent *)
ClaimedOpenSpread(b2, a1) == ((b2 - a1) * 10000) \div a1

(* C20: the open spread of a tick is (bid_2 - ask_1) / ask_1 * 100 of the  *)
(* quotes the tick itself fetched, and it is the sample the tick appended. *)
C20_OpenSpreadFromOwnQuotes ==
    \A t \in TaskIds :
        (PostEntry(t) /\ tasks[t].ask1 > 0 /\ tasks[t].bid2 > 0)
           => tasks[t].os = ClaimedOpenSpread(tasks[t].bid2, tasks[t].ask1)

C20_Witness ==
    \E t \in TaskIds :
        /\ PostEntry(t) /\ tasks[t].real /\ ticks.count = 2
        /\ ticks.open[2].v = tasks[t].os
        /\ ticks.open[1].v # tasks[t].os

ClosingOrderSent(t, i) ==
    /\ tasks'[t].pc \in {"close1", "close2"}
    /\ tasks'[t] # tasks[t]
    /\ tasks'[t].closing[tasks'[t].ci] = i

(* C22: the status of a Position only moves from active to completed, and  *)
(* no step changes a field of a completed Position or sends a closing      *)
(* order for it.                                                           *)
C22_CompletedImmutable ==
    [][\A i \in 1..Len(trades) :
         /\ trades'[i].status # trades[i].status
               => (trades[i].status = "active" /\ trades'[i].status = "completed")
         /\ trades[i].status = "completed"
               => /\ trades'[i] = trades[i]
                  /\ \A t \in TaskIds : ~ClosingOrderSent(t, i)]_vars

(* C23: a tick that passed the settings checks ends through its publish    *)
(* step, having saved the BotState row (the row then holds this tick's     *)
(* data) and after that sent one update event to the group of the key's    *)
(* user: its outputs are the save followed by exactly one emit.            *)
C23_PersistThenEmit ==
    [][\A t \in TaskIds :
         /\ (tasks[t].pc # "push" /\ tasks'[t].pc = "push")
               => /\ tasks'[t].io = <<SaveOp, EmitOp>>
                  /\ botState'.data = BotData(tasks'[t], trades')
         /\ (InTick(t) /\ ~InTick(t)')
               => /\ tasks[t].pc = "push"
                  /\ tasks'[t].io = <<SaveOp, EmitOp>>]_vars

C23_Witness ==
    \E t \in TaskIds :
        /\ tasks[t].pc = "sleep" /\ tasks[t].io = <<SaveOp, EmitOp>>
        /\ botState.data.open_spread # 0

(* Task t is back at the while test after the emit of its tick raised and  *)
(* main_loop logged the error.                                             *)
EmitFailed(t) == tasks[t].pc = "top" /\ tasks[t].err = "emit"

(* C24: an emit that raises leaves the task alive at the while test with   *)
(* the error logged and the run flag untouched, and from there the task    *)
(* goes on to a further tick unless the run flag is cleared.               *)
C24_EmitFailureSurvived ==
    /\ [][\A t \in TaskIds :
            (tasks[t].pc = "push" /\ tasks'[t] # tasks[t] /\ tasks'[t].pc # "sleep")
               => (EmitFailed(t)' /\ running' = running)]_vars
    /\ ((\E t \in TaskIds : EmitFailed(t)) /\ tickNo < env.maxTicks)
          ~> (~running \/ \E t \in TaskIds : InTick(t))

C24_Witness ==
    \E t \in TaskIds :
        EmitFailed(t) /\ running /\ tasks[t].tick = 1 /\ tickNo < env.maxTicks

(* C25: a tick in which a write of the BotState row raised still sends its *)
(* update event: a task whose last tick logged a persistence error has an  *)
(* emit among that tick's outputs.                                         *)
C25_PersistFailureStillEmits ==
    \A t \in TaskIds :
        tasks[t].err = "save"
           => \E j \in 1..Len(tasks[t].io) : tasks[t].io[j] = EmitOp

(* C26: a tick begins only in a task that comes from the construction of   *)
(* the loop or from the per-tick sleep, never straight from the error      *)
(* handler of the previous tick; and a raised error leaves the task alive. *)
C26_SleepAfterError ==
    [][\A t \in TaskIds :
         /\ (tasks[t].pc = "top" /\ tasks'[t] # tasks[t] /\ running)
               => tasks[t].err = "none"
         /\ (tasks'[t].err # "none" /\ tasks'[t] # tasks[t]) => Live(t)']_vars

(* The key has no stored settings, or one of its two venues is not set *)
SettingsMissing ==
    ~settings.present \/ settings.exchange_1 = "" \/ settings.exchange_2 = ""

(* C27: while the settings are missing, no tick fetches a snapshot, places *)
(* an order, appends to the window, writes the BotState data or emits an   *)
(* event, and a tick of a running loop leaves its task alive in the        *)
(* per-tick sleep.                                                         *)
C27_MissingSettingsSkipTick ==
    /\ [](SettingsMissing =>
            /\ orders = {} /\ trades = <<>> /\ ticks = NoTicks
            /\ botState.data = NoData
            /\ \A t \in TaskIds : ~InTick(t) /\ tasks[t].io = <<>>
                                   /\ tasks[t].err = "none")
    /\ [][\A t \in TaskIds :
            (SettingsMissing /\ tasks[t].pc = "top" /\ running
             /\ tasks'[t] # tasks[t])
               => (tasks'[t].pc = "sleep" /\ tickNo' = tickNo + 1)]_vars

C27_Witness ==
    \E t \in TaskIds :
        /\ SettingsMissing /\ settings.present /\ running
        /\ tasks[t].pc = "sleep" /\ tasks[t].tick = 1

(* Task t is inside a tick, suspended in an awaited call or not *)
TickOpen(t) == InTick(t) \/ tasks[t].pc = "hung"

(* C28: every tick that began ends, and once the run flag stays cleared    *)
(* every loop of the key exits, also when a venue call never returns.      *)
C28_TickTerminates ==
    /\ \A t \in TaskIds : TickOpen(t) ~> ~TickOpen(t)
    /\ (<>[](~running)) => <>[](LiveTasks = {})

(* Task t is waiting for a snapshot of its tick *)
Fetching(t) == tasks[t].pc \in {"fetch1", "fetch2"}

(* Task t is waiting for an opening or closing order of its tick *)
Executing(t) == tasks[t].pc \in {"open1", "open2", "close1", "close2"}

(* C29: the ticks of the key do not overlap: no task waits for a snapshot  *)
(* of its tick while another task of the key is waiting for an order of    *)
(* its own tick.                                                           *)
C29_TicksSequential ==
    \A t1, t2 \in TaskIds :
        t1 # t2 => ~(Fetching(t1) /\ Executing(t2))

(* C30: a step in which a task of the first key raises leaves the second   *)
(* key's run flag, task and window as they were, and the second key keeps  *)
(* working: a start or stop queued for it is executed and its loop, when   *)
(* ready, is resumed.                                                      *)
C30_ErrorStaysInKey ==
    /\ [][(\E t \in TaskIds : tasks'[t] # tasks[t] /\ tasks'[t].err # "none")
            => peer' = peer]_vars
    /\ (peer.pending # "none") ~> (peer.pending = "none")
    /\ (peer.pc = "ready") ~> (peer.pc # "ready")

(* The snapshot requests task t has issued in its tick in flight: update_state *)
(* awaits _fetch_market_snapshot for exchange_1 and calls it for exchange_2    *)
(* only once that await has returned.                                          *)
SnapshotsRequested(t) ==
    IF tasks[t].pc = "fetch1" THEN {1}
    ELSE IF InTick(t) THEN {1, 2}
    ELSE {}

(* C32: the two snapshot requests of a tick are issued together: a task     *)
(* that waits for the snapshot of exchange 1 has its request to exchange 2  *)
(* outstanding as well.                                                     *)
C32_SnapshotsConcurrent ==
    \A t \in TaskIds :
        1 \in SnapshotsRequested(t) => 2 \in SnapshotsRequested(t)

(* The venue accepted the order: create_order returned an order, with or   *)
(* without a price in it.                                                  *)
Accepted(r) == r \notin {"none", "fail"}

(* C37: at the end of a tick whose leg-1 opening order was accepted by the *)
(* venue, a Position opened in that tick is stored, also when the order's  *)
(* fill price stayed unknown.                                              *)
C37_AcceptedLegRecorded ==
    \A t \in TaskIds :
        (tasks[t].pc = "push" /\ Accepted(tasks[t].leg1res))
           => tasks[t].tick \in OpenTicks

(* C38: once a Stop has cleared the persisted is_active and the key's loop *)
(* has exited, the BotState row says is_active = false: the write of the   *)
(* tick that was in flight did not bring back the value it had read.       *)
C38_StopStaysPersisted ==
    (calls.stop >= 1 /\ ~running /\ LiveTasks = {}) => ~botState.is_active

(* The Positions opened in the tick in flight of task t *)
OpenedBy(t) == {i \in 1..Len(trades) : trades[i].otick = tasks[t].tick}

(* C39: within a tick the entry comes before the exit (a task waiting for  *)
(* an opening order has not yet evaluated the exit of its tick), and a     *)
(* Position opened in the tick is among the positions the exit step of     *)
(* that tick evaluates: the close operation is invoked for it iff the exit *)
(* condition holds, a close is then attempted for it before the tick       *)
(* publishes, and when both closing orders fill it is completed in the     *)
(* tick that opened it.                                                    *)
C39_ExitSeesNewPosition ==
    \A t \in TaskIds :
        /\ tasks[t].pc \in {"open1", "open2"}
              => (~tasks[t].closeInv /\ tasks[t].exitAct = {}
                  /\ tasks[t].attempted = {})
        /\ \A i \in OpenedBy(t) :
              PostExit(t)
                 => /\ i \in tasks[t].exitAct
                    /\ tasks[t].closeInv
                         <=> ClaimedCloseCondition(tasks[t].st.side,
                                                   tasks[t].st.close_spread, tasks[t].cs)
                    /\ (tasks[t].pc = "push" /\ tasks[t].closeInv)
                         => /\ i \in tasks[t].attempted
                            /\ (tasks[t].last.tid = i /\ tasks[t].last.l1
                                /\ tasks[t].last.l2)
                                  => /\ trades[i].status = "completed"
                                     /\ trades[i].ctick = trades[i].otick

C39_Witness ==
    \E t \in TaskIds : \E i \in OpenedBy(t) :
        /\ tasks[t].pc = "push" /\ tasks[t].closeInv
        /\ trades[i].status = "completed"
        /\ trades[i].ctick = trades[i].otick

(* The keys of the dict assigned to bot.data, saved and handed to          *)
(* push_update: one literal, the same for a tick on real and on synthetic  *)
(* quotes.  BotData above holds the values of the keys the model follows.  *)
DataKeys ==
    {"exchange_1", "exchange_2", "side", "open_spread", "close_spread",
     "funding_rate_1", "next_funding_1", "bid_1", "ask_1", "mark_price_1",
     "max_size_1",
     "funding_rate_2", "next_funding_2", "bid_2", "ask_2", "mark_price_2",
     "max_size_2",
     "ticks", "timestamp", "orders", "pnl", "pnl_percent", "realized_pnl"}

(* Keys under which a published state could carry the tick's real_market   *)
(* flag or its negation.                                                   *)
OriginKeys == {"real_market", "simulated", "is_simulated", "synthetic", "degraded"}

(* C31: the state a tick on synthetic quotes saves and publishes carries a *)
(* key that marks its values as simulated.                                 *)
C31_SimulatedFlagged ==
    \A t \in TaskIds :
        (tasks[t].pc = "push" /\ ~tasks[t].real
         /\ botState.data = BotData(tasks[t], trades))
           => /\ DOMAIN botState.data \subseteq DataKeys
              /\ DataKeys \cap OriginKeys # {}

(* C33: no venue of the model reports a fee, so every leg's fee is         *)
(* price * amount * DEFAULT_FEE_RATE on the price the leg returned: the    *)
(* opening fees stored with each Position on its entry prices, the closing *)
(* fee of a completed Position on its exit prices, also for a leg whose    *)
(* price came from the ticker.                                             *)
C33_FeeDefault ==
    \A i \in 1..Len(trades) :
        LET tr == trades[i]
        IN /\ tr.fee_open1 = LegFee(tr.entry1, tr.amount)
           /\ tr.fee_open2 = LegFee(tr.entry2, tr.amount)
           /\ tr.status = "completed"
                => tr.fee_close = LegFee(tr.exit1, tr.amount)
                                  + LegFee(tr.exit2, tr.amount)

(* C36: every closing order goes to the venue stored in its Position for   *)
(* that leg, also after the settings' exchange_1 was changed.              *)
C36_CloseOnStoredVenue ==
    \A o \in orders :
        o.kind = "close"
           => o.venue = (IF o.leg = 1 THEN trades[o.tid].ex1 ELSE trades[o.tid].ex2)

(* C35: no closing order is sent for a leg of a Position whose reversing   *)
(* order was already executed by the venue, also when the Position stayed  *)
(* active because its other leg failed to close in an earlier tick.        *)
C35_NoSecondClose ==
    [][\A t \in TaskIds : \A i \in 1..Len(trades) :
         ClosingOrderSent(t, i)
            => <<i, IF tasks'[t].pc = "close1" THEN 1 ELSE 2>> \notin closedLegs]_vars

(* C34: an order is sent to a venue only while the user's connection to it *)
(* is active: after a disconnect no task sends an opening or closing order *)
(* to that venue through a client cached before.                           *)
C34_DisconnectInvalidates ==
    [][\A t \in TaskIds :
         tasks'[t] # tasks[t]
            => /\ tasks'[t].pc \in {"open1", "close1"} => connections'.active[1]
               /\ tasks'[t].pc \in {"open2", "close2"} => connections'.active[2]]_vars

(* C40: every update event the engine emits while the user's consumer is   *)
(* connected reaches that consumer: the emit of a tick adds one event to   *)
(* what the consumer received.                                             *)
C40_EmitDelivered ==
    [][\A t \in TaskIds :
         (tasks[t].pc = "push" /\ tasks'[t].pc = "sleep" /\ consumers.connected)
            => consumers'.received = consumers.received + 1]_vars

====
